---- MODULE Spec2Model ----
(***************************************************************************)
(* WMTP client: the WebTransport transport layer (WMTPTransport) and the   *)
(* protocol session (WMTPProtocol) of src/client/js/protocol.js, wired as  *)
(* the UI controller wires them (wmtpTransport.onMessage calls             *)
(* wmtpProtocol.handleMessage).                                            *)
(*                                                                         *)
(* One action is one run of JavaScript between two points where control    *)
(* can be yielded (an await, or the return to the event loop).             *)
(***************************************************************************)
EXTENDS Integers, Sequences, FiniteSets, TLC

\* ------------------------------------------------------------------ bounds
\* connect() calls; call c creates WebTransport object c and stream c
MaxConn == 2

Calls == 1..MaxConn
\* a null handle (transport, writer, reader)
Null == 0

\* ------------------------------------------------------------- JS values
JsNull == "null"
JsUndefined == "undefined"
JsTrue == "true"
JsFalse == "false"
\* a value that an if (...) of the source takes as true
Truthy(v) == v \notin {JsNull, JsUndefined, JsFalse, ""}

\* ------------------------------------------------------------- messages
\* an inbound message: the fields handleMessage reads; a field that is
\* absent reads as undefined
Cmds == {"HB", "SESSION_INIT", "AUTH_OK", "SESSION_RESUMED", "LOGOUT_OK", "PONG",
         JsUndefined}
Messages ==
    [cmd : Cmds,
     status : {"OK", "ERR"},
     session_token : {JsUndefined, "", "T1"},
     authenticated : {JsUndefined, JsTrue, JsFalse},
     email : {JsUndefined, "a@b.com"},
     username : {JsUndefined, "a"}]

Msg(cmd, status, token, auth, email, username) ==
    [cmd |-> cmd, status |-> status, session_token |-> token,
     authenticated |-> auth, email |-> email, username |-> username]

\* messages of the protocol document (src/unnamed/part_000, lines 349-403)
Heartbeat == Msg("HB", "OK", JsUndefined, JsUndefined, JsUndefined, JsUndefined)
SessionInit == Msg("SESSION_INIT", "OK", "T1", JsFalse, JsUndefined, JsUndefined)
AuthOk == Msg("AUTH_OK", "OK", "T1", JsTrue, "a@b.com", "a")
Pong == Msg("PONG", "OK", JsUndefined, JsUndefined, JsUndefined, JsUndefined)
AuthErr == Msg(JsUndefined, "ERR", JsUndefined, JsUndefined, JsUndefined, JsUndefined)

\* a frame of a read chunk: a substring that parses (ok) to msg, or does not
Frame(m) == [ok |-> TRUE, msg |-> m]
BadFrame == [ok |-> FALSE, msg |-> Heartbeat]

\* chunks the transport specification reads
WireChunks == {<<Frame(Heartbeat)>>, <<BadFrame, Frame(Heartbeat)>>}

\* chunks the session specification reads: the messages of the protocol
\* document, and AUTH_OK without its token, alone and in pairs
AuthOkNoToken == Msg("AUTH_OK", "OK", JsUndefined, JsTrue, "a@b.com", "a")
Resumed == Msg("SESSION_RESUMED", "OK", "T1", JsTrue, "a@b.com", "a")
LogoutOk == Msg("LOGOUT_OK", "OK", JsUndefined, JsUndefined, JsUndefined, JsUndefined)
SessionMessages ==
    {Heartbeat, SessionInit, AuthOk, AuthOkNoToken, Resumed, LogoutOk, Pong, AuthErr}
PairMessages == {SessionInit, AuthOk, AuthErr}
\* chunks of one substring that does not parse and one that does
MixedChunks ==
    {<<BadFrame, Frame(m)>> : m \in PairMessages}
        \cup {<<Frame(m), BadFrame>> : m \in PairMessages}
SessionChunks ==
    {<<Frame(m)>> : m \in SessionMessages}
        \cup {<<Frame(a), Frame(b)>> : a \in PairMessages, b \in PairMessages}
        \cup MixedChunks

\* command operations of WMTPProtocol
CommandKinds == {"INIT", "AUTH", "RESUME", "LOGOUT", "PING", "STATUS", "INFO", "SEND"}

\* no request handed to the transport
NoRequest == [cmd |-> "none", token |-> JsUndefined]

VARIABLES
    \* WMTPTransport fields
    transport, writer, reader, connected,
    \* runtime: is WebTransport defined
    supported,
    \* WebTransport object c: "unused", "connecting", "open", "closed"
    conn,
    \* bidirectional stream c: "none", "open", "ended", "errored"
    stream,
    \* position of connect() call c: "idle", "awaitReady", "awaitStream", "done", "failed"
    cpc,
    \* the connection on which call c asked for its stream
    starget,
    \* the connection whose closed promise call c attached its handlers to
    closedOn,
    \* handlers of call c: "none", "armed", "fired"
    handler,
    \* read loop started by call c: "none", "reading", "done" (end of stream),
    \* "failed" (read error), "ended" (this.connected was false)
    loop,
    \* the stream on which loop c has a read() pending
    lrd,
    \* disconnect() calls suspended at the await of close()
    discPending,
    \* transport notifications fired by the last step, in order
    tfired,
    \* WMTPProtocol fields
    sessionToken, authenticated, email, username,
    \* protocol notifications fired by the last step, in order: the hook, the
    \* message it got, the place of that message in the chunk and the session
    \* as it was when the hook was called
    fired,
    \* the session when the last step began to dispatch its messages
    before,
    \* the command suspended at the await of writer.write ("none": no command
    \* is), and the stream it wrote to
    sendOp, wstream,
    \* the error the last step threw to its caller ("none": it threw nothing)
    thrown,
    \* the stream on which the last step called writer.write
    written,
    \* the request the last step handed to transport.send (NoRequest: none)
    request,
    \* the operation that returned to its caller, without throwing, in the
    \* last step ("none": no operation did)
    returned,
    \* the substrings the last step failed to parse (console.warn, line 409)
    warned,
    \* localStorage item 'wmtp_session' ("none": no such item) and what the
    \* last loadSession() call returned
    store, loaded,
    \* what the peer wrote into one chunk, and what _parseMessages made of it
    wire, parsedOut

fields == <<transport, writer, reader, connected>>
session == <<sessionToken, authenticated, email, username>>
sendvars == <<sendOp, wstream>>
storage == <<store, loaded>>
framing == <<wire, parsedOut>>
vars == <<transport, writer, reader, connected, supported, conn, stream, cpc,
          starget, closedOn, handler, loop, lrd, discPending,
          tfired, sessionToken, authenticated, email, username,
          fired, before, sendOp, wstream, thrown, written, request, returned,
          warned, store, loaded, wire, parsedOut>>

\* --------------------------------------------------------------- session

\* getSession that reports a session as authenticated only while the
\* transport is connected
GetSessionWhenConnected ==
    [token |-> sessionToken,
     authenticated |-> IF connected THEN authenticated ELSE JsFalse,
     email |-> email, username |-> username]

\* getSession(), lines 164-171
GetSession ==
    [token |-> sessionToken, authenticated |-> authenticated,
     email |-> email, username |-> username]

\* the session of a new WMTPProtocol, and after a logout
NoSession ==
    [token |-> JsNull, authenticated |-> JsFalse, email |-> JsNull,
     username |-> JsNull]

\* Classify with a LOGOUT_OK case that forgets email and username
ClassifyLogoutKeepsIdentity(s, m) ==
    CASE m.cmd = "SESSION_INIT" ->
             [s EXCEPT !.token = m.session_token, !.authenticated = JsFalse]
      [] m.cmd = "AUTH_OK" ->
             [token |-> m.session_token, authenticated |-> JsTrue,
              email |-> m.email, username |-> m.username]
      [] m.cmd = "SESSION_RESUMED" ->
             [token |-> m.session_token, authenticated |-> m.authenticated,
              email |-> m.email, username |-> m.username]
      [] m.cmd = "LOGOUT_OK" ->
             [s EXCEPT !.token = JsNull, !.authenticated = JsFalse]
      [] OTHER -> s

\* Classify with a default case that adopts the token a message carries
ClassifyDefaultAdoptsToken(s, m) ==
    CASE m.cmd = "SESSION_INIT" ->
             [s EXCEPT !.token = m.session_token, !.authenticated = JsFalse]
      [] m.cmd = "AUTH_OK" ->
             [token |-> m.session_token, authenticated |-> JsTrue,
              email |-> m.email, username |-> m.username]
      [] m.cmd = "SESSION_RESUMED" ->
             [token |-> m.session_token, authenticated |-> m.authenticated,
              email |-> m.email, username |-> m.username]
      [] m.cmd = "LOGOUT_OK" -> NoSession
      [] OTHER -> IF Truthy(m.session_token)
                  THEN [s EXCEPT !.token = m.session_token] ELSE s

\* handleMessage, lines 111-146: the switch on message.cmd
Classify(s, m) ==
    CASE m.cmd = "SESSION_INIT" ->
             [s EXCEPT !.token = m.session_token, !.authenticated = JsFalse]
      [] m.cmd = "AUTH_OK" ->
             [token |-> m.session_token, authenticated |-> JsTrue,
              email |-> m.email, username |-> m.username]
      [] m.cmd = "SESSION_RESUMED" ->
             [token |-> m.session_token, authenticated |-> m.authenticated,
              email |-> m.email, username |-> m.username]
      [] m.cmd = "LOGOUT_OK" -> NoSession
      [] OTHER -> s

\* the SESSION_RESUMED case calls the hook of the AUTH_OK case
StateHooksResumedAsAuth(m) ==
    CASE m.cmd = "SESSION_INIT" -> <<"onSessionInit">>
      [] m.cmd \in {"AUTH_OK", "SESSION_RESUMED"} -> <<"onAuthSuccess">>
      [] OTHER -> <<>>

\* handleMessage, lines 115-117, 125-127, 135-137: the hook of the case
StateHooks(m) ==
    CASE m.cmd \in {"SESSION_INIT", "SESSION_RESUMED"} -> <<"onSessionInit">>
      [] m.cmd = "AUTH_OK" -> <<"onAuthSuccess">>
      [] OTHER -> <<>>

\* onResponse only for a message that is no error
ResponseHooksOkOnly(m) ==
    IF m.status = "ERR" THEN <<"onError">> ELSE <<"onResponse">>

\* handleMessage, lines 148-158: onError for status ERR, then onResponse
ResponseHooks(m) ==
    (IF m.status = "ERR" THEN <<"onError">> ELSE <<>>) \o <<"onResponse">>

\* handleMessage without the return of line 107
HandleMessageHbFallsThrough(s, m) ==
    [session |-> Classify(s, m), seen |-> Classify(s, m),
     hooks |-> (IF m.cmd = "HB" THEN <<"onHeartbeat">> ELSE <<>>)
                   \o StateHooks(m) \o ResponseHooks(m)]

\* handleMessage that leaves the session alone when the status is ERR
HandleMessageErrSkips(s, m) ==
    IF m.cmd = "HB"
    THEN [session |-> s, seen |-> s, hooks |-> <<"onHeartbeat">>]
    ELSE [session |-> IF m.status = "ERR" THEN s ELSE Classify(s, m),
          seen |-> IF m.status = "ERR" THEN s ELSE Classify(s, m),
          hooks |-> StateHooks(m) \o ResponseHooks(m)]

\* handleMessage whose cases call their hook before they assign the fields
HandleMessageHookFirst(s, m) ==
    IF m.cmd = "HB"
    THEN [session |-> s, seen |-> s, hooks |-> <<"onHeartbeat">>]
    ELSE [session |-> Classify(s, m), seen |-> s,
          hooks |-> StateHooks(m) \o ResponseHooks(m)]

\* handleMessage(message), lines 101-159: the session afterwards, the hooks
\* called, in order, and the session they see: each case of the switch
\* assigns its fields before it calls its hook
HandleMessage(s, m) ==
    IF m.cmd = "HB"
    THEN [session |-> s, seen |-> s, hooks |-> <<"onHeartbeat">>]
    ELSE [session |-> Classify(s, m), seen |-> Classify(s, m),
          hooks |-> StateHooks(m) \o ResponseHooks(m)]

\* _parseMessages that gives up at the first substring that does not parse
RECURSIVE ParseMessagesStopsAtBad(_)
ParseMessagesStopsAtBad(chunk) ==
    IF chunk = <<>> THEN <<>>
    ELSE IF Head(chunk).ok
         THEN <<Head(chunk).msg>> \o ParseMessagesStopsAtBad(Tail(chunk))
         ELSE <<>>

\* _parseMessages, lines 397-414: the substrings that parse, in order
RECURSIVE ParseMessages(_)
ParseMessages(chunk) ==
    IF chunk = <<>> THEN <<>>
    ELSE (IF Head(chunk).ok THEN <<Head(chunk).msg>> ELSE <<>>)
             \o ParseMessages(Tail(chunk))

\* ------------------------------------------------------------ JSON text
\* a text is a sequence of characters; a JSON value is null, a string or an
\* object with its members in order
JNull == [t |-> "null"]
JStr(chars) == [t |-> "str", v |-> chars]
JObj(members) == [t |-> "obj", m |-> members]
Member(key, value) == [k |-> key, v |-> value]

\* JSON.stringify, lines 185 and 338: no white space; the strings of the
\* model hold no quote and no backslash, so nothing is escaped
RECURSIVE Stringify(_)
RECURSIVE StringifyMembers(_)
StringifyMembers(m) ==
    IF m = <<>> THEN <<>>
    ELSE <<"\"">> \o m[1].k \o <<"\"", ":">> \o Stringify(m[1].v)
             \o (IF Len(m) > 1 THEN <<",">> \o StringifyMembers(Tail(m)) ELSE <<>>)

Stringify(v) ==
    CASE v.t = "null" -> <<"n", "u", "l", "l">>
      [] v.t = "str" -> <<"\"">> \o v.v \o <<"\"">>
      [] v.t = "obj" -> <<"{">> \o StringifyMembers(v.m) \o <<"}">>

\* white space of JSON and of \s in the regular expression of line 399
IsWs(ch) == ch \in {" ", "\n"}

\* the first place at or after i that holds no white space
RECURSIVE SkipWs(_, _)
SkipWs(s, i) == IF i <= Len(s) /\ IsWs(s[i]) THEN SkipWs(s, i + 1) ELSE i

\* the first place at or after i that holds a quote (Len(s) + 1: none)
RECURSIVE FindQuote(_, _)
FindQuote(s, i) == IF i <= Len(s) /\ s[i] # "\"" THEN FindQuote(s, i + 1) ELSE i

\* a parse that failed
ParseFail == [ok |-> FALSE, v |-> JNull, i |-> 0]

\* JSON.parse, line 407 and line 200, from place i on: the value read and the
\* place after it
ParseString(s, i) ==
    LET j == FindQuote(s, i + 1)
    IN  IF j > Len(s) THEN ParseFail
        ELSE [ok |-> TRUE, v |-> JStr(SubSeq(s, i + 1, j - 1)), i |-> j + 1]

RECURSIVE ParseValue(_, _)
RECURSIVE ParseMembers(_, _, _)
ParseMembers(s, i, acc) ==
    LET j == SkipWs(s, i)
        key == ParseString(s, j)
        c == SkipWs(s, key.i)
        val == ParseValue(s, c + 1)
        e == SkipWs(s, val.i)
        members == Append(acc, Member(key.v.v, val.v))
    IN  IF j > Len(s) \/ s[j] # "\"" THEN ParseFail
        ELSE IF ~key.ok \/ c > Len(s) \/ s[c] # ":" THEN ParseFail
        ELSE IF ~val.ok \/ e > Len(s) THEN ParseFail
        ELSE IF s[e] = "," THEN ParseMembers(s, e + 1, members)
        ELSE IF s[e] = "}" THEN [ok |-> TRUE, v |-> JObj(members), i |-> e + 1]
        ELSE ParseFail

ParseValue(s, i) ==
    LET j == SkipWs(s, i)
    IN  IF j > Len(s) THEN ParseFail
        ELSE IF s[j] = "\"" THEN ParseString(s, j)
        ELSE IF s[j] = "{"
             THEN LET k == SkipWs(s, j + 1)
                  IN  IF k <= Len(s) /\ s[k] = "}"
                      THEN [ok |-> TRUE, v |-> JObj(<<>>), i |-> k + 1]
                      ELSE ParseMembers(s, j + 1, <<>>)
        ELSE IF j + 3 <= Len(s) /\ SubSeq(s, j, j + 3) = <<"n", "u", "l", "l">>
             THEN [ok |-> TRUE, v |-> JNull, i |-> j + 4]
        ELSE ParseFail

\* JSON.parse of a whole text: it throws (ok is FALSE) unless one value and
\* nothing but white space is there
JsonParse(s) ==
    LET r == ParseValue(s, 1)
    IN  IF r.ok /\ SkipWs(s, r.i) = Len(s) + 1
        THEN [ok |-> TRUE, v |-> r.v]
        ELSE [ok |-> FALSE, v |-> JNull]

\* text.trim(), line 399
RECURSIVE Trim(_)
Trim(s) ==
    IF s = <<>> THEN s
    ELSE IF IsWs(s[1]) THEN Trim(Tail(s))
    ELSE IF IsWs(s[Len(s)]) THEN Trim(SubSeq(s, 1, Len(s) - 1))
    ELSE s

\* BoundaryEnd for the expression /\}\{/, without its \s*
BoundaryEndNoSpace(s, i) ==
    IF s[i] # "}" THEN 0
    ELSE IF i + 1 <= Len(s) /\ s[i + 1] = "{" THEN i + 1 ELSE 0

\* where a match of /\}\s*\{/ that begins at i ends (0: no match begins at i)
BoundaryEnd(s, i) ==
    IF s[i] # "}" THEN 0
    ELSE LET j == SkipWs(s, i + 1)
         IN  IF j <= Len(s) /\ s[j] = "{" THEN j ELSE 0

\* split(/\}\s*\{/), line 399: the pieces between the matches, from the
\* piece that begins at start, scanning at i
RECURSIVE SplitFrom(_, _, _)
SplitFrom(s, start, i) ==
    IF i > Len(s) THEN <<SubSeq(s, start, Len(s))>>
    ELSE IF BoundaryEnd(s, i) # 0
         THEN <<SubSeq(s, start, i - 1)>>
                  \o SplitFrom(s, BoundaryEnd(s, i) + 1, BoundaryEnd(s, i) + 1)
    ELSE SplitFrom(s, start, i + 1)

\* lines 402-404: the braces the split took away are put back
Rebrace(parts, k) ==
    (IF k > 1 THEN <<"{">> ELSE <<>>) \o parts[k]
        \o (IF k < Len(parts) THEN <<"}">> ELSE <<>>)

\* lines 399-410: the frames of a chunk text, each parsed or not
FramesOf(text) ==
    LET parts == SplitFrom(Trim(text), 1, 1)
    IN  [k \in 1..Len(parts) |->
            LET r == JsonParse(Rebrace(parts, k))
            IN  [ok |-> r.ok, msg |-> r.v]]

\* _parseMessages(text), lines 397-414
ParseText(text) == ParseMessages(FramesOf(text))

\* what the peer writes into one chunk: two messages, one after the other,
\* with white space or nothing between them
Strings == {<<"a">>, <<" ">>, <<"{", "}">>, <<"}", "{">>, <<"}", " ", "{">>}
WireMessages ==
    {JObj(<<>>), JObj(<<Member(<<"d">>, JObj(<<>>))>>)}
        \cup {JObj(<<Member(<<"c">>, JStr(x))>>) : x \in Strings}
        \cup {JObj(<<Member(<<"c">>, JStr(<<"a">>)),
                     Member(<<"d">>, JObj(<<Member(<<"e">>, JStr(x))>>))>>) :
                  x \in Strings}
Separators == {<<>>, <<" ">>, <<"\n", " ">>}
Wires ==
    {[msgs |-> <<a, b>>, text |-> Stringify(a) \o sep \o Stringify(b)] :
        a \in WireMessages, b \in WireMessages, sep \in Separators}

\* no chunk written, no _parseMessages call made
NoWire == [msgs |-> <<>>, text |-> <<>>]
NotParsed == [done |-> FALSE, msgs |-> <<>>]

\* no item in the store, no loadSession call made
NoItem == [has |-> FALSE, text |-> <<>>]
NotLoaded == [called |-> FALSE, found |-> FALSE, v |-> JNull]

\* the notifications of one message: hook, message, place in the chunk and
\* the session at the call
Notes(hooks, m, n, s) ==
    [i \in 1..Len(hooks) |-> [hook |-> hooks[i], msg |-> m, n |-> n, seen |-> s]]

\* Dispatch that hands the messages of a chunk over last to first
RECURSIVE DispatchLastFirst(_, _, _)
DispatchLastFirst(s, msgs, n) ==
    IF msgs = <<>> THEN [session |-> s, fired |-> <<>>]
    ELSE LET k == Len(msgs)
             one == HandleMessage(s, msgs[k])
             rest == DispatchLastFirst(one.session, SubSeq(msgs, 1, k - 1), n)
         IN  [session |-> rest.session,
              fired |-> Notes(one.hooks, msgs[k], n + k - 1, one.seen) \o rest.fired]

\* _startReading, line 381, with the onMessage handler of the UI controller
\* (src/unnamed/part_000, lines 126-128): messages.forEach(handleMessage)
RECURSIVE Dispatch(_, _, _)
Dispatch(s, msgs, n) ==
    IF msgs = <<>> THEN [session |-> s, fired |-> <<>>]
    ELSE LET one == HandleMessage(s, Head(msgs))
             rest == Dispatch(one.session, Tail(msgs), n + 1)
         IN  [session |-> rest.session,
              fired |-> Notes(one.hooks, Head(msgs), n, one.seen) \o rest.fired]

SetSession(s) ==
    /\ sessionToken' = s.token
    /\ authenticated' = s.authenticated
    /\ email' = s.email
    /\ username' = s.username

\* ------------------------------------------------------------- transport

\* constructor() of WMTPTransport, lines 225-237, and of WMTPProtocol, 7-20
Init ==
    /\ transport = Null /\ writer = Null /\ reader = Null /\ connected = FALSE
    /\ supported \in BOOLEAN
    /\ conn = [c \in Calls |-> "unused"]
    /\ stream = [c \in Calls |-> "none"]
    /\ cpc = [c \in Calls |-> "idle"]
    /\ starget = [c \in Calls |-> Null]
    /\ closedOn = [c \in Calls |-> Null]
    /\ handler = [c \in Calls |-> "none"]
    /\ loop = [c \in Calls |-> "none"]
    /\ lrd = [c \in Calls |-> Null]
    /\ discPending = 0
    /\ tfired = <<>>
    /\ sessionToken = JsNull /\ authenticated = JsFalse
    /\ email = JsNull /\ username = JsNull
    /\ fired = <<>> /\ before = NoSession
    /\ sendOp = "none" /\ wstream = Null
    /\ thrown = "none" /\ written = Null
    /\ request = NoRequest /\ returned = "none" /\ warned = 0
    /\ store = NoItem /\ loaded = NotLoaded
    /\ wire = NoWire /\ parsedOut = NotParsed

\* _handleDisconnect that forgets to release the reader
HandleDisconnectKeepsReader ==
    /\ connected' = FALSE
    /\ transport' = Null
    /\ writer' = Null
    /\ reader' = reader
    /\ tfired' = <<"onDisconnect">>

\* this._handleDisconnect(), lines 419-428
HandleDisconnect ==
    /\ connected' = FALSE
    /\ transport' = Null
    /\ writer' = Null
    /\ reader' = Null
    /\ tfired' = <<"onDisconnect">>

\* the catch block of connect(), lines 306-312: notify, then rethrow
ConnectCatch(c) ==
    /\ tfired' = <<"onError">>
    /\ thrown' = "ConnectError"
    /\ cpc' = [cpc EXCEPT ![c] = "failed"]

\* the head of the read loop, lines 366-367: the position the loop reaches
\* when it tests this.connected and then calls this.reader.read()
LoopHead(isConnected, rd) ==
    IF ~isConnected THEN "ended"
    ELSE IF rd = Null THEN "failed"
    ELSE "reading"

\* a step that dispatches no message
NoDispatch == fired' = <<>> /\ before' = NoSession /\ warned' = 0

\* a step that notifies nobody, throws nothing, writes nothing, sends no
\* request and returns from no operation
Silent ==
    /\ tfired' = <<>> /\ NoDispatch /\ thrown' = "none" /\ written' = Null
    /\ request' = NoRequest /\ returned' = "none"

\* the first call not yet made; the caller awaits connect() before it calls
\* it again (src/unnamed/part_000, line 178)
NextCall(c) ==
    /\ cpc[c] = "idle"
    /\ \A d \in Calls : d < c => cpc[d] \in {"done", "failed"}

\* connect(), lines 252-256: WebTransport is undefined
ConnectUnsupported(c) ==
    /\ NextCall(c) /\ ~supported
    /\ ConnectCatch(c)
    /\ NoDispatch /\ written' = Null
    /\ request' = NoRequest /\ returned' = "none"
    /\ UNCHANGED <<storage, framing, fields, supported, conn, stream, starget, closedOn, handler,
                   loop, lrd, discPending, session,
                   sendvars>>

\* connect(), lines 252-278: up to the await of this.transport.ready
ConnectStart(c) ==
    /\ NextCall(c) /\ supported
    /\ transport' = c
    /\ conn' = [conn EXCEPT ![c] = "connecting"]
    /\ cpc' = [cpc EXCEPT ![c] = "awaitReady"]
    /\ Silent
    /\ UNCHANGED <<storage, framing, writer, reader, connected, supported, stream, starget,
                   closedOn, handler, loop, lrd, discPending,
                   session, sendvars>>

\* connect(), lines 278-282: ready resolved; createBidirectionalStream() is
\* called on whatever this.transport is now
ConnectReady(c) ==
    /\ cpc[c] = "awaitReady" /\ conn[c] = "connecting"
    /\ conn' = [conn EXCEPT ![c] = "open"]
    /\ IF transport = Null
       THEN /\ ConnectCatch(c)
            /\ UNCHANGED starget
       ELSE /\ starget' = [starget EXCEPT ![c] = transport]
            /\ cpc' = [cpc EXCEPT ![c] = "awaitStream"]
            /\ tfired' = <<>> /\ thrown' = "none"
    /\ NoDispatch /\ written' = Null
    /\ request' = NoRequest /\ returned' = "none"
    /\ UNCHANGED <<storage, framing, fields, supported, stream, closedOn, handler, loop, lrd,
                   discPending, session, sendvars>>

\* connect(), line 278 and 306-312: ready rejected (handshake failure, or the
\* connection was closed while connecting)
ConnectReadyFailed(c) ==
    /\ cpc[c] = "awaitReady" /\ conn[c] \in {"connecting", "closed"}
    /\ conn' = [conn EXCEPT ![c] = "closed"]
    /\ ConnectCatch(c)
    /\ NoDispatch /\ written' = Null
    /\ request' = NoRequest /\ returned' = "none"
    /\ UNCHANGED <<storage, framing, fields, supported, stream, starget, closedOn, handler, loop,
                   lrd, discPending, session, sendvars>>

\* connect() that starts the read loop before it sets this.connected
ConnectStreamLoopFirst(c) ==
    /\ cpc[c] = "awaitStream" /\ conn[starget[c]] = "open"
    /\ stream' = [stream EXCEPT ![c] = "open"]
    /\ writer' = c
    /\ reader' = c
    /\ connected' = TRUE
    /\ loop' = [loop EXCEPT ![c] = LoopHead(connected, c)]
    /\ lrd' = [lrd EXCEPT ![c] = c]
    /\ IF transport = Null
       THEN /\ ConnectCatch(c)
            /\ returned' = "none"
            /\ UNCHANGED <<closedOn, handler>>
       ELSE /\ closedOn' = [closedOn EXCEPT ![c] = transport]
            /\ handler' = [handler EXCEPT ![c] = "armed"]
            /\ tfired' = <<"onConnect">> /\ thrown' = "none"
            /\ cpc' = [cpc EXCEPT ![c] = "done"]
            /\ returned' = "connect"
    /\ NoDispatch /\ written' = Null /\ request' = NoRequest
    /\ UNCHANGED <<storage, framing, transport, supported, conn, starget, discPending,
                   session, sendvars>>

\* connect(), lines 282-305: the stream is open
ConnectStream(c) ==
    /\ cpc[c] = "awaitStream" /\ conn[starget[c]] = "open"
    /\ stream' = [stream EXCEPT ![c] = "open"]
    /\ writer' = c
    /\ reader' = c
    /\ connected' = TRUE
    /\ loop' = [loop EXCEPT ![c] = LoopHead(TRUE, c)]
    /\ lrd' = [lrd EXCEPT ![c] = c]
    /\ IF transport = Null
       THEN /\ ConnectCatch(c)
            /\ returned' = "none"
            /\ UNCHANGED <<closedOn, handler>>
       ELSE /\ closedOn' = [closedOn EXCEPT ![c] = transport]
            /\ handler' = [handler EXCEPT ![c] = "armed"]
            /\ tfired' = <<"onConnect">> /\ thrown' = "none"
            /\ cpc' = [cpc EXCEPT ![c] = "done"]
            /\ returned' = "connect"
    /\ NoDispatch /\ written' = Null /\ request' = NoRequest
    /\ UNCHANGED <<storage, framing, transport, supported, conn, starget, discPending,
                   session, sendvars>>

\* connect(), line 282 and 306-312: createBidirectionalStream() rejected
ConnectStreamFailed(c) ==
    /\ cpc[c] = "awaitStream"
    /\ ConnectCatch(c)
    /\ NoDispatch /\ written' = Null
    /\ request' = NoRequest /\ returned' = "none"
    /\ UNCHANGED <<storage, framing, fields, supported, conn, stream, starget, closedOn, handler,
                   loop, lrd, discPending, session,
                   sendvars>>

\* disconnect() without the try around close(): the error of close() goes
\* to the caller and the teardown does not run
DisconnectPropagates(throws) ==
    /\ discPending = 0
    /\ IF transport # Null /\ ~throws
       THEN /\ conn' = [conn EXCEPT ![transport] = "closed"]
            /\ discPending' = discPending + 1
            /\ tfired' = <<>> /\ returned' = "none" /\ thrown' = "none"
            /\ UNCHANGED fields
       ELSE IF transport # Null
       THEN /\ tfired' = <<>> /\ returned' = "none" /\ thrown' = "CloseError"
            /\ UNCHANGED <<fields, conn, discPending>>
       ELSE /\ HandleDisconnect
            /\ returned' = "disconnect" /\ thrown' = "none"
            /\ UNCHANGED <<conn, discPending>>
    /\ NoDispatch /\ written' = Null /\ request' = NoRequest
    /\ UNCHANGED <<storage, framing, supported, stream, cpc, starget, closedOn, handler, loop, lrd,
                   session, sendvars>>

\* disconnect(), lines 318-327, up to the await of close(); with no transport,
\* or when close() throws, it runs to its end; the caller awaits disconnect()
\* before it calls it again (src/unnamed/part_000, lines 184-187)
Disconnect(throws) ==
    /\ discPending = 0
    /\ IF transport # Null /\ ~throws
       THEN /\ conn' = [conn EXCEPT ![transport] = "closed"]
            /\ discPending' = discPending + 1
            /\ tfired' = <<>> /\ returned' = "none"
            /\ UNCHANGED fields
       ELSE /\ HandleDisconnect
            /\ returned' = "disconnect"
            /\ UNCHANGED <<conn, discPending>>
    /\ NoDispatch /\ thrown' = "none" /\ written' = Null /\ request' = NoRequest
    /\ UNCHANGED <<storage, framing, supported, stream, cpc, starget, closedOn, handler, loop, lrd,
                   session, sendvars>>

\* disconnect(), line 326: after the await
DisconnectResume ==
    /\ discPending > 0
    /\ discPending' = discPending - 1
    /\ HandleDisconnect
    /\ returned' = "disconnect"
    /\ NoDispatch /\ thrown' = "none" /\ written' = Null /\ request' = NoRequest
    /\ UNCHANGED <<storage, framing, supported, conn, stream, cpc, starget, closedOn, handler, loop,
                   lrd, session, sendvars>>

\* the server, or the network, closes connection d
RemoteClose(d) ==
    /\ conn[d] = "open"
    /\ conn' = [conn EXCEPT ![d] = "closed"]
    /\ Silent
    /\ UNCHANGED <<storage, framing, fields, supported, stream, cpc, starget, closedOn, handler,
                   loop, lrd, discPending, session,
                   sendvars>>

\* connect(), lines 292-298: the closed promise settles, either handler runs
ClosedHandler(c) ==
    /\ handler[c] = "armed" /\ conn[closedOn[c]] = "closed"
    /\ handler' = [handler EXCEPT ![c] = "fired"]
    /\ HandleDisconnect
    /\ NoDispatch /\ thrown' = "none" /\ written' = Null
    /\ request' = NoRequest /\ returned' = "none"
    /\ UNCHANGED <<storage, framing, supported, conn, stream, cpc, starget, closedOn, loop, lrd,
                   discPending, session, sendvars>>

\* _startReading(), lines 367-384: read() resolves with a chunk, its messages
\* are dispatched, and the loop tests this.connected again
ReadData(c, chunk) ==
    /\ loop[c] = "reading"
    /\ stream[lrd[c]] = "open" /\ conn[starget[lrd[c]]] = "open"
    /\ LET d == Dispatch(GetSession, ParseMessages(chunk), 1)
       IN  /\ SetSession(d.session)
           /\ fired' = d.fired
           /\ before' = GetSession
    /\ warned' = Len(chunk) - Len(ParseMessages(chunk))
    /\ request' = NoRequest /\ returned' = "none"
    /\ loop' = [loop EXCEPT ![c] = LoopHead(connected, reader)]
    /\ lrd' = [lrd EXCEPT ![c] = IF connected /\ reader # Null THEN reader ELSE @]
    /\ tfired' = <<>> /\ thrown' = "none" /\ written' = Null
    /\ UNCHANGED <<storage, framing, fields, supported, conn, stream, cpc, starget, closedOn,
                   handler, discPending, sendvars>>

\* _startReading(), lines 369-372: read() resolves with done
ReadDone(c) ==
    /\ loop[c] = "reading"
    /\ \/ stream[lrd[c]] = "ended"
       \/ stream[lrd[c]] = "open" /\ conn[starget[lrd[c]]] = "open"
    /\ stream' = [stream EXCEPT ![lrd[c]] = "ended"]
    /\ loop' = [loop EXCEPT ![c] = "done"]
    /\ Silent
    /\ UNCHANGED <<storage, framing, fields, supported, conn, cpc, starget, closedOn, handler, lrd,
                   discPending, session, sendvars>>

\* _startReading(), lines 385-389: read() rejects
ReadError(c) ==
    /\ loop[c] = "reading"
    /\ stream[lrd[c]] \in {"open", "errored"}
    /\ stream' = [stream EXCEPT ![lrd[c]] = "errored"]
    /\ loop' = [loop EXCEPT ![c] = "failed"]
    /\ Silent
    /\ UNCHANGED <<storage, framing, fields, supported, conn, cpc, starget, closedOn, handler, lrd,
                   discPending, session, sendvars>>

\* -------------------------------------------------------------- commands

\* WMTPTransport.send(data), lines 333-341, up to the await of write(), for
\* the command kind
TransportSend(kind) ==
    IF ~connected \/ writer = Null
    THEN /\ thrown' = "NotConnected"
         /\ written' = Null
         /\ UNCHANGED <<sendOp, wstream>>
    ELSE /\ thrown' = "none"
         /\ written' = writer
         /\ sendOp' = kind
         /\ wstream' = writer

\* the request a command builds, lines 26-86: its cmd and, for logout, line
\* 57, the session token at the time of the call
Request(kind) ==
    [cmd |-> kind, token |-> IF kind = "LOGOUT" THEN sessionToken ELSE JsUndefined]

\* logout that clears the session before it sends its request
CommandLogoutClearsFirst(kind) ==
    /\ sendOp = "none"
    /\ request' = Request(kind)
    /\ TransportSend(kind)
    /\ tfired' = <<>> /\ NoDispatch /\ returned' = "none"
    /\ IF kind = "LOGOUT" THEN SetSession(NoSession) ELSE UNCHANGED session
    /\ UNCHANGED <<storage, framing, fields, supported, conn, stream, cpc, starget, closedOn,
                   handler, loop, lrd, discPending>>

\* init, auth, resume, logout, ping, status, info, send of WMTPProtocol,
\* lines 25-95: each hands its request to the transport; the caller awaits a
\* command before it calls the next (src/unnamed/part_000, lines 189-241)
Command(kind) ==
    /\ sendOp = "none"
    /\ request' = Request(kind)
    /\ TransportSend(kind)
    /\ tfired' = <<>> /\ NoDispatch /\ returned' = "none"
    /\ UNCHANGED <<storage, framing, fields, supported, conn, stream, cpc, starget, closedOn,
                   handler, loop, lrd, discPending, session>>

\* logout forgets to clear the session
AfterSendKeeps(kind) == UNCHANGED session

\* every command clears the session when its send has returned
AfterSendClears(kind) == SetSession(NoSession)

\* what a command does after its send has returned: logout, lines 60-63,
\* clears the session; the others return
AfterSend(kind) ==
    IF kind = "LOGOUT" THEN SetSession(NoSession) ELSE UNCHANGED session

\* the write is done: send returns, line 342, and the command goes on
WriteDone ==
    /\ sendOp # "none"
    /\ conn[starget[wstream]] = "open" /\ stream[wstream] # "errored"
    /\ sendOp' = "none" /\ wstream' = Null
    /\ AfterSend(sendOp)
    /\ returned' = sendOp
    /\ tfired' = <<>> /\ NoDispatch /\ thrown' = "none" /\ written' = Null
    /\ request' = NoRequest
    /\ UNCHANGED <<storage, framing, fields, supported, conn, stream, cpc, starget, closedOn,
                   handler, loop, lrd, discPending>>

\* the write fails: send throws, and so does the command
WriteFailed ==
    /\ sendOp # "none"
    /\ sendOp' = "none" /\ wstream' = Null
    /\ thrown' = "WriteError"
    /\ tfired' = <<>> /\ NoDispatch /\ written' = Null
    /\ request' = NoRequest /\ returned' = "none"
    /\ UNCHANGED <<storage, framing, fields, supported, conn, stream, cpc, starget, closedOn,
                   handler, loop, lrd, discPending, session>>

\* -------------------------------------------------------- specifications

\* the transport under every interleaving of its events, with little traffic
Next ==
    \/ \E c \in Calls : ConnectUnsupported(c)
    \/ \E c \in Calls : ConnectStart(c)
    \/ \E c \in Calls : ConnectReady(c)
    \/ \E c \in Calls : ConnectReadyFailed(c)
    \/ \E c \in Calls : ConnectStream(c)
    \/ \E c \in Calls : ConnectStreamFailed(c)
    \/ \E throws \in BOOLEAN : Disconnect(throws)
    \/ DisconnectResume
    \/ \E d \in Calls : RemoteClose(d)
    \/ \E c \in Calls : ClosedHandler(c)
    \/ \E c \in Calls, chunk \in WireChunks : ReadData(c, chunk)
    \/ \E c \in Calls : ReadDone(c)
    \/ \E c \in Calls : ReadError(c)
    \/ Command("SEND")
    \/ WriteDone
    \/ WriteFailed

Spec == Init /\ [][Next]_vars

\* the protocol session under messages and commands, over one connection
\* that is made and then closed by the caller
NextSession ==
    \/ ConnectStart(1)
    \/ ConnectReady(1)
    \/ ConnectStream(1)
    \/ \E throws \in BOOLEAN : Disconnect(throws)
    \/ DisconnectResume
    \/ ClosedHandler(1)
    \/ \E chunk \in SessionChunks : ReadData(1, chunk)
    \/ \E kind \in CommandKinds : Command(kind)
    \/ WriteDone
    \/ WriteFailed

InitSession == Init /\ supported = TRUE


SpecSession == InitSession /\ [][NextSession]_vars

\* the sessions the protocol can be in: those that messages lead to from the
\* session of a new WMTPProtocol
RECURSIVE SessionsFrom(_)
SessionsFrom(S) ==
    LET N == S \cup {HandleMessage(s, m).session : s \in S, m \in Messages}
    IN  IF N = S THEN S ELSE SessionsFrom(N)

ReachableSessions == SessionsFrom({NoSession})

\* wmtpProtocol.handleMessage(m), called once as the onMessage handler calls
\* it (src/unnamed/part_000, lines 126-128)
HandleMessageCall(m) ==
    /\ fired = <<>>
    /\ LET d == Dispatch(GetSession, <<m>>, 1)
       IN  /\ SetSession(d.session)
           /\ fired' = d.fired
           /\ before' = GetSession
    /\ warned' = 0 /\ request' = NoRequest /\ returned' = "none"
    /\ tfired' = <<>> /\ thrown' = "none" /\ written' = Null
    /\ UNCHANGED <<storage, framing, fields, supported, conn, stream, cpc, starget, closedOn,
                   handler, loop, lrd, discPending, sendvars>>

\* handleMessage as a function of the session and the message: every session
\* the protocol can be in, and one call with every message
InitClassify ==
    /\ transport = Null /\ writer = Null /\ reader = Null /\ connected = FALSE
    /\ supported = TRUE
    /\ conn = [c \in Calls |-> "unused"]
    /\ stream = [c \in Calls |-> "none"]
    /\ cpc = [c \in Calls |-> "idle"]
    /\ starget = [c \in Calls |-> Null]
    /\ closedOn = [c \in Calls |-> Null]
    /\ handler = [c \in Calls |-> "none"]
    /\ loop = [c \in Calls |-> "none"]
    /\ lrd = [c \in Calls |-> Null]
    /\ discPending = 0
    /\ tfired = <<>>
    /\ \E s \in ReachableSessions :
          /\ sessionToken = s.token /\ authenticated = s.authenticated
          /\ email = s.email /\ username = s.username
    /\ fired = <<>> /\ before = NoSession
    /\ sendOp = "none" /\ wstream = Null
    /\ thrown = "none" /\ written = Null
    /\ request = NoRequest /\ returned = "none" /\ warned = 0
    /\ store = NoItem /\ loaded = NotLoaded
    /\ wire = NoWire /\ parsedOut = NotParsed

NextClassify == \E m \in Messages : HandleMessageCall(m)

SpecClassify == InitClassify /\ [][NextClassify]_vars

\* _parseMessages(text), lines 397-414, called once on the text of the chunk
ParseMessagesCall ==
    /\ ~parsedOut.done
    /\ parsedOut' = [done |-> TRUE, msgs |-> ParseText(wire.text)]
    /\ warned' = Len(FramesOf(wire.text)) - Len(ParseText(wire.text))
    /\ fired' = <<>> /\ before' = NoSession
    /\ tfired' = <<>> /\ thrown' = "none" /\ written' = Null
    /\ request' = NoRequest /\ returned' = "none"
    /\ UNCHANGED <<storage, wire, fields, supported, conn, stream, cpc, starget,
                   closedOn, handler, loop, lrd, discPending, session, sendvars>>

\* _parseMessages as a function of the chunk text: every chunk of Wires, and
\* one call
InitFraming ==
    /\ transport = Null /\ writer = Null /\ reader = Null /\ connected = FALSE
    /\ supported = TRUE
    /\ conn = [c \in Calls |-> "unused"]
    /\ stream = [c \in Calls |-> "none"]
    /\ cpc = [c \in Calls |-> "idle"]
    /\ starget = [c \in Calls |-> Null]
    /\ closedOn = [c \in Calls |-> Null]
    /\ handler = [c \in Calls |-> "none"]
    /\ loop = [c \in Calls |-> "none"]
    /\ lrd = [c \in Calls |-> Null]
    /\ discPending = 0
    /\ tfired = <<>>
    /\ sessionToken = JsNull /\ authenticated = JsFalse
    /\ email = JsNull /\ username = JsNull
    /\ fired = <<>> /\ before = NoSession
    /\ sendOp = "none" /\ wstream = Null
    /\ thrown = "none" /\ written = Null
    /\ request = NoRequest /\ returned = "none" /\ warned = 0
    /\ store = NoItem /\ loaded = NotLoaded
    /\ wire \in Wires /\ parsedOut = NotParsed

NextFraming == ParseMessagesCall

SpecFraming == InitFraming /\ [][NextFraming]_vars

\* ------------------------------------------------------------ persistence

\* the characters of the strings a session field can hold
CharsOf(v) ==
    CASE v = "T1" -> <<"T", "1">>
      [] v = "a@b.com" -> <<"a", "@", "b", ".", "c", "o", "m">>
      [] v = "a" -> <<"a">>
      [] v = "" -> <<>>

\* a session field as JSON.stringify sees it, and a JSON value as the
\* program reads it
ToJson(v) == IF v = JsNull THEN JNull ELSE JStr(CharsOf(v))
FromJson(j) ==
    IF j.t = "str"
    THEN CHOOSE v \in {"", "T1", "a@b.com", "a", "T0"} :
             IF v = "T0" THEN j.v = <<"T", "0">> ELSE CharsOf(v) = j.v
    ELSE JsNull

KeyToken == <<"t", "o", "k", "e", "n">>
KeyEmail == <<"e", "m", "a", "i", "l">>
KeyUsername == <<"u", "s", "e", "r", "n", "a", "m", "e">>

\* the object of lines 185-189; JSON.stringify leaves out a property whose
\* value is undefined
SavedRecord(s) ==
    JObj((IF s.token = JsUndefined THEN <<>>
          ELSE <<Member(KeyToken, ToJson(s.token))>>)
         \o (IF s.email = JsUndefined THEN <<>>
             ELSE <<Member(KeyEmail, ToJson(s.email))>>)
         \o (IF s.username = JsUndefined THEN <<>>
             ELSE <<Member(KeyUsername, ToJson(s.username))>>))

\* record.key as the program reads it: undefined when the key is not there
FieldOf(j, key) ==
    IF j.t = "obj" /\ \E k \in 1..Len(j.m) : j.m[k].k = key
    THEN FromJson(j.m[CHOOSE k \in 1..Len(j.m) : j.m[k].k = key].v)
    ELSE JsUndefined

\* items found in the store when the page is loaded: none, a record of an
\* earlier session, a text that does not parse, the empty string
OldRecord ==
    JObj(<<Member(KeyToken, JStr(<<"T", "0">>)), Member(KeyEmail, JNull),
           Member(KeyUsername, JNull)>>)
FoundItems ==
    {NoItem, [has |-> TRUE, text |-> Stringify(OldRecord)],
     [has |-> TRUE, text |-> <<"{", "\"", "t">>], [has |-> TRUE, text |-> <<>>]}

\* a step of the persistence bridge: it touches neither the transport nor
\* the session
BridgeStep ==
    /\ fired' = <<>> /\ before' = NoSession /\ warned' = 0
    /\ tfired' = <<>> /\ thrown' = "none" /\ written' = Null
    /\ request' = NoRequest
    /\ UNCHANGED <<framing, fields, supported, conn, stream, cpc, starget,
                   closedOn, handler, loop, lrd, discPending, session,
                   sendvars>>

\* saveSession that writes whether or not there is a token
SaveSessionAlways ==
    /\ store' = [has |-> TRUE, text |-> Stringify(SavedRecord(GetSession))]
    /\ returned' = "saveSession"
    /\ UNCHANGED loaded
    /\ BridgeStep

\* saveSession(), lines 183-191
SaveSession ==
    /\ IF Truthy(sessionToken)
       THEN store' = [has |-> TRUE, text |-> Stringify(SavedRecord(GetSession))]
       ELSE UNCHANGED store
    /\ returned' = "saveSession"
    /\ UNCHANGED loaded
    /\ BridgeStep

\* loadSession(), lines 196-206: null when there is no item, when the item is
\* the empty string and when it does not parse
LoadSession ==
    /\ loaded' = [called |-> TRUE,
                  found |-> store.has /\ store.text # <<>> /\ JsonParse(store.text).ok,
                  v |-> IF store.has /\ store.text # <<>>
                        THEN JsonParse(store.text).v ELSE JNull]
    /\ returned' = "loadSession"
    /\ UNCHANGED store
    /\ BridgeStep

\* clearSession(), lines 211-213
ClearSession ==
    /\ store' = NoItem
    /\ returned' = "clearSession"
    /\ UNCHANGED loaded
    /\ BridgeStep

\* the persistence bridge in every session the protocol can be in, with
\* every item it can find in the store
InitPersist ==
    /\ transport = Null /\ writer = Null /\ reader = Null /\ connected = FALSE
    /\ supported = TRUE
    /\ conn = [c \in Calls |-> "unused"]
    /\ stream = [c \in Calls |-> "none"]
    /\ cpc = [c \in Calls |-> "idle"]
    /\ starget = [c \in Calls |-> Null]
    /\ closedOn = [c \in Calls |-> Null]
    /\ handler = [c \in Calls |-> "none"]
    /\ loop = [c \in Calls |-> "none"]
    /\ lrd = [c \in Calls |-> Null]
    /\ discPending = 0
    /\ tfired = <<>>
    /\ \E s \in ReachableSessions :
          /\ sessionToken = s.token /\ authenticated = s.authenticated
          /\ email = s.email /\ username = s.username
    /\ fired = <<>> /\ before = NoSession
    /\ sendOp = "none" /\ wstream = Null
    /\ thrown = "none" /\ written = Null
    /\ request = NoRequest /\ returned = "none" /\ warned = 0
    /\ store \in FoundItems /\ loaded = NotLoaded
    /\ wire = NoWire /\ parsedOut = NotParsed

NextPersist == SaveSession \/ LoadSession \/ ClearSession

SpecPersist == InitPersist /\ [][NextPersist]_vars

\* chunks the reconnection specification reads: a login and a logout answer
ReconnectChunks == {<<Frame(AuthOk)>>, <<Frame(LogoutOk)>>}

\* the steps of the transport lifecycle: connect, disconnect, remote close
\* and the closed handler
Lifecycle ==
    \/ \E c \in Calls : ConnectStart(c)
    \/ \E c \in Calls : ConnectReady(c)
    \/ \E c \in Calls : ConnectStream(c)
    \/ \E throws \in BOOLEAN : Disconnect(throws)
    \/ DisconnectResume
    \/ \E d \in Calls : RemoteClose(d)
    \/ \E c \in Calls : ClosedHandler(c)

\* the session across disconnections and reconnections: the lifecycle, with
\* login and logout answers read in between
NextReconnect ==
    \/ Lifecycle
    \/ \E c \in Calls, chunk \in ReconnectChunks : ReadData(c, chunk)

SpecReconnect == InitSession /\ [][NextReconnect]_vars

\* ---------------------------------------------------------------- claims

\* a connection has been established: some connect() call opened its stream
Established == \E c \in Calls : stream[c] # "none"

\* C1: whenever the session says authenticated, its token is present and
\* non-empty (checked under SpecSession: messages interleaved with commands)
C1_AuthenticatedHasToken == authenticated = JsTrue => Truthy(sessionToken)

\* C2: onDisconnect fires once for one established connection: when the
\* transport is disconnected after a connection was established, no further
\* step (a second disconnect(), a disconnect() after the remote close, the
\* closed handler after a disconnect()) fires onDisconnect again
C2_OneDisconnectNotification ==
    [][(Established /\ ~connected) => tfired' # <<"onDisconnect">>]_vars

\* C3: at every yield point the writer and the reader are non-null if and
\* only if the transport is connected
C3_HandlesIffConnected ==
    /\ connected <=> writer # Null
    /\ connected <=> reader # Null

\* C3 witness: connected again, with both handles, after the closed handler
\* of an earlier connection has torn the transport down
C3_Witness ==
    /\ connected /\ writer # Null /\ reader # Null
    /\ \E c \in Calls : handler[c] = "fired"

\* C4: the step in which the read loop of a connected transport sees the end
\* of the stream or a read error also runs the teardown: disconnected, handles
\* released, onDisconnect fired
C4_LoopExitTearsDown ==
    [][\A c \in Calls :
          (connected /\ loop[c] = "reading" /\ loop'[c] \in {"done", "failed"})
              => /\ ~connected'
                 /\ writer' = Null /\ reader' = Null
                 /\ tfired' = <<"onDisconnect">>]_vars

\* C5: after SESSION_INIT is classified, from every prior session, the token
\* is the message's, authenticated is false, email and username are cleared,
\* and onSessionInit has fired exactly once, with the message
C5_SessionInitResets ==
    (fired # <<>> /\ fired[1].msg.cmd = "SESSION_INIT") =>
        /\ sessionToken = fired[1].msg.session_token
        /\ authenticated = JsFalse
        /\ email \in {JsNull, JsUndefined}
        /\ username \in {JsNull, JsUndefined}
        /\ Cardinality({i \in 1..Len(fired) : fired[i].hook = "onSessionInit"}) = 1
        /\ \A i \in 1..Len(fired) : fired[i].msg = fired[1].msg

\* C6: after LOGOUT_OK is classified, from every prior session, token, email
\* and username are null and authenticated is false
C6_LogoutOkClears ==
    (fired # <<>> /\ fired[1].msg.cmd = "LOGOUT_OK") => GetSession = NoSession

\* C6 witness: LOGOUT_OK classified in an authenticated session with a token,
\* an email and a username
C6_Witness ==
    /\ fired # <<>> /\ fired[1].msg.cmd = "LOGOUT_OK"
    /\ before = [token |-> "T1", authenticated |-> JsTrue,
                 email |-> "a@b.com", username |-> "a"]
    /\ GetSession = NoSession

\* C7 as stated: the session fields change only in a step that classifies an
\* inbound message
C7_OnlyClassification == [][session' # session => fired' # <<>>]_vars

\* C7 as amended: the session fields change only in a step that classifies an
\* inbound message, or in the step in which logout goes on after its send has
\* returned; no other command changes them
C7_ClassificationOrLogout ==
    [][session' # session =>
          \/ fired' # <<>>
          \/ sendOp = "LOGOUT" /\ sendOp' = "none" /\ thrown' = "none"]_vars

\* C7 witness: a command other than logout has written its request and the
\* authenticated session is as it was
C7_Witness ==
    /\ sendOp \in CommandKinds \ {"LOGOUT"} /\ written # Null
    /\ GetSession = [token |-> "T1", authenticated |-> JsTrue,
                     email |-> "a@b.com", username |-> "a"]

\* the last connect() call made
LastCall == CHOOSE c \in Calls : cpc[c] # "idle" /\ \A d \in Calls : d > c => cpc[d] = "idle"

\* C8: when connect() throws, the transport is disconnected, holds no
\* connection object, writer or reader, the call has started no read loop and
\* fired onError but not onConnect
C8_ConnectFailureLeavesNothing ==
    thrown = "ConnectError" =>
        /\ ~connected
        /\ transport = Null /\ writer = Null /\ reader = Null
        /\ loop[LastCall] = "none"
        /\ tfired = <<"onError">>

\* the closed handler of a connection has run the teardown and no connect()
\* call made after that connection's has succeeded
TornDownNotReconnected ==
    \E c \in Calls : handler[c] = "fired" /\ \A d \in Calls : d > c => cpc[d] # "done"

\* C9: a send issued after a teardown and before the next successful connect
\* throws NotConnected, writes to no stream and leaves the transport as it was
C9_SendAfterTeardownFails ==
    [][(TornDownNotReconnected /\ Command("SEND")) =>
          /\ thrown' = "NotConnected"
          /\ written' = Null
          /\ UNCHANGED <<fields, sendvars>>]_vars

\* C10: the notifications of one dispatch are in the order of the messages
\* that caused them: none for a later message comes before one for an earlier
C10_OrderPreserved ==
    \A i, j \in 1..Len(fired) : i < j => fired[i].n <= fired[j].n

\* C10 witness: a chunk of two messages, each with two notifications
C10_Witness ==
    /\ Len(fired) = 4
    /\ fired[1].n = 1 /\ fired[2].n = 1 /\ fired[3].n = 2 /\ fired[4].n = 2
    /\ fired[1].msg # fired[3].msg

\* the strings of a JSON value: its keys and its string values, at any depth
RECURSIVE StringsOf(_)
StringsOf(v) ==
    CASE v.t = "str" -> {v.v}
      [] v.t = "obj" ->
             UNION {{v.m[k].k} \cup StringsOf(v.m[k].v) : k \in 1..Len(v.m)}
      [] OTHER -> {}

\* a string in which the expression of line 399 finds a match
HasBoundary(chars) == \E i \in 1..Len(chars) : BoundaryEnd(chars, i) # 0

\* C11 as stated: two well-formed messages written one after the other in
\* one chunk, with or without white space between them, come out of
\* _parseMessages as exactly the two messages, in order
C11_FramingExact == parsedOut.done => parsedOut.msgs = wire.msgs

\* C11 as amended: the same, for messages none of whose strings holds a
\* closing brace followed by white space or nothing and an opening brace
C11_FramingWithoutBoundaryInStrings ==
    (/\ parsedOut.done
     /\ \A k \in 1..Len(wire.msgs) :
            \A x \in StringsOf(wire.msgs[k]) : ~HasBoundary(x))
        => parsedOut.msgs = wire.msgs

\* C11 witness: a message with a nested object and braces in a string value,
\* white space, then a second message; both came out
C11_Witness ==
    /\ parsedOut.done
    /\ wire.msgs[1] = JObj(<<Member(<<"c">>, JStr(<<"a">>)),
                             Member(<<"d">>, JObj(<<Member(<<"e">>, JStr(<<"{", "}">>))>>))>>)
    /\ wire.msgs[2] = JObj(<<Member(<<"c">>, JStr(<<" ">>))>>)
    /\ Len(wire.text) > Len(Stringify(wire.msgs[1])) + Len(Stringify(wire.msgs[2]))
    /\ parsedOut.msgs = wire.msgs

\* C12: the step that reads a chunk of one malformed and one well-formed
\* substring, in either order, hands exactly the well-formed message to the
\* session, warns once and, on a connected transport, leaves it connected
\* with the read loop reading
C12_MalformedIsolated ==
    [][\A chunk \in MixedChunks :
          ReadData(1, chunk) =>
              /\ fired' # <<>>
              /\ \A i \in 1..Len(fired') :
                     /\ fired'[i].n = 1
                     /\ \E k \in 1..2 : chunk[k].ok /\ fired'[i].msg = chunk[k].msg
              /\ warned' = 1
              /\ connected' = connected
              /\ connected => loop'[1] = "reading"]_vars

\* C12 witness: a chunk with a malformed substring and AUTH_OK was read on a
\* connected transport
C12_Witness ==
    /\ warned = 1 /\ connected /\ loop[1] = "reading"
    /\ fired # <<>> /\ fired[1].msg = AuthOk
    /\ GetSession = [token |-> "T1", authenticated |-> JsTrue,
                     email |-> "a@b.com", username |-> "a"]

\* C13: in the step in which logout returns, all four session fields are
\* null or false, whatever was received in the meantime; and the LOGOUT
\* request handed to the transport carries the token the session had when
\* logout was called
C13_LogoutClearsAndCarriesToken ==
    [][/\ returned' = "LOGOUT" =>
              /\ sessionToken' = JsNull /\ authenticated' = JsFalse
              /\ email' = JsNull /\ username' = JsNull
       /\ request'.cmd = "LOGOUT" => request'.token = sessionToken]_vars

\* C13 witness: logout has returned on a connected transport and the session
\* is empty
C13_Witness ==
    /\ returned = "LOGOUT" /\ connected
    /\ GetSession = NoSession

\* C14: when connect() returns, its call has opened its stream, the
\* transport is connected with the writer and the reader of that stream, the
\* read loop of the call is reading from it, and the step has fired onConnect
\* once and nothing else
C14_ConnectEstablishes ==
    returned = "connect" =>
        /\ cpc[LastCall] = "done"
        /\ stream[LastCall] = "open"
        /\ connected /\ writer = LastCall /\ reader = LastCall
        /\ loop[LastCall] = "reading" /\ lrd[LastCall] = LastCall
        /\ tfired = <<"onConnect">>
        /\ thrown = "none"

\* C14 witness: the second connect() call has returned
C14_Witness ==
    /\ returned = "connect" /\ cpc[2] = "done"
    /\ connected /\ loop[2] = "reading"

\* C15: every step in which a disconnect() call runs to its end (with no
\* connection object, after close() threw, or after the await of close())
\* returns to the caller without an error, with the transport disconnected,
\* the connection object, writer and reader released and onDisconnect fired
C15_DisconnectAlwaysTearsDown ==
    [][(/\ (\E t \in BOOLEAN : Disconnect(t)) \/ DisconnectResume
        /\ discPending' = 0)
          => /\ returned' = "disconnect" /\ thrown' = "none"
             /\ ~connected'
             /\ transport' = Null /\ writer' = Null /\ reader' = Null
             /\ tfired' = <<"onDisconnect">>]_vars

\* C15 witness: disconnect() has returned and torn the transport down while
\* the connection of the last connect() is still open: close() threw
C15_Witness ==
    /\ returned = "disconnect" /\ ~connected /\ writer = Null
    /\ Established
    /\ cpc[LastCall] = "done" /\ conn[LastCall] = "open" /\ handler[LastCall] = "armed"

\* C16: loadSession right after a saveSession with a token returns a record
\* whose token, email and username read as those of the session and that has
\* no other member; saveSession without a token leaves the store as it was
C16_PersistenceRoundTrip ==
    [][/\ (LoadSession /\ returned = "saveSession" /\ Truthy(sessionToken)) =>
              /\ loaded'.found /\ loaded'.v.t = "obj"
              /\ FieldOf(loaded'.v, KeyToken) = sessionToken
              /\ FieldOf(loaded'.v, KeyEmail) = email
              /\ FieldOf(loaded'.v, KeyUsername) = username
              /\ \A k \in 1..Len(loaded'.v.m) :
                     loaded'.v.m[k].k \in {KeyToken, KeyEmail, KeyUsername}
       /\ (SaveSession /\ ~Truthy(sessionToken)) => store' = store]_vars

\* C16 witness: the session with token T1, email and username was saved over
\* an older record and loaded back
C16_Witness ==
    /\ returned = "loadSession" /\ loaded.found
    /\ FieldOf(loaded.v, KeyToken) = "T1"
    /\ FieldOf(loaded.v, KeyEmail) = "a@b.com"
    /\ FieldOf(loaded.v, KeyUsername) = "a"
    /\ GetSession = [token |-> "T1", authenticated |-> JsTrue,
                     email |-> "a@b.com", username |-> "a"]

\* how often a hook was called by the last step
Calls_Of(hook) == Cardinality({i \in 1..Len(fired) : fired[i].hook = hook})

\* C17: after SESSION_RESUMED is classified, from every session, token, email
\* and username are the message's, the session is authenticated if and only
\* if the message's flag is true, and onSessionInit has fired once and
\* onAuthSuccess not at all
C17_ResumedAdopts ==
    (fired # <<>> /\ fired[1].msg.cmd = "SESSION_RESUMED") =>
        /\ sessionToken = fired[1].msg.session_token
        /\ email = fired[1].msg.email
        /\ username = fired[1].msg.username
        /\ authenticated = fired[1].msg.authenticated
        /\ authenticated = JsTrue <=> fired[1].msg.authenticated = JsTrue
        /\ Calls_Of("onSessionInit") = 1
        /\ Calls_Of("onAuthSuccess") = 0

\* C17 witness: SESSION_RESUMED with the flag false was classified in an
\* authenticated session that held no email
C17_Witness ==
    /\ fired # <<>> /\ fired[1].msg.cmd = "SESSION_RESUMED"
    /\ fired[1].msg.authenticated = JsFalse /\ fired[1].msg.session_token = "T1"
    /\ before.authenticated = JsTrue /\ before.email = JsUndefined
    /\ authenticated = JsFalse /\ sessionToken = "T1" /\ email = "a@b.com"

\* C18: a heartbeat fires onHeartbeat and nothing else and leaves the session
\* as it was, whatever status and session fields it carries
C18_HeartbeatOnly ==
    (fired # <<>> /\ fired[1].msg.cmd = "HB") =>
        /\ Len(fired) = 1 /\ fired[1].hook = "onHeartbeat"
        /\ GetSession = before

\* C18 witness: a heartbeat with status ERR and session fields was classified
\* in a session that does not hold them
C18_Witness ==
    /\ fired # <<>> /\ fired[1].msg.cmd = "HB"
    /\ fired[1].msg.status = "ERR" /\ fired[1].msg.session_token = "T1"
    /\ fired[1].msg.authenticated = JsTrue /\ fired[1].msg.email = "a@b.com"
    /\ before = NoSession /\ GetSession = NoSession

\* C19: a message with status ERR that is no heartbeat fires onError once; the
\* session afterwards is the one the same message with status OK leads to:
\* unchanged for a cmd outside the four, the transition of the cmd otherwise
C19_ErrorNotified ==
    (fired # <<>> /\ fired[1].msg.cmd # "HB" /\ fired[1].msg.status = "ERR") =>
        /\ Calls_Of("onError") = 1
        /\ GetSession = HandleMessage(before, [fired[1].msg EXCEPT !.status = "OK"]).session
        /\ fired[1].msg.cmd \notin {"SESSION_INIT", "AUTH_OK", "SESSION_RESUMED", "LOGOUT_OK"}
               => GetSession = before
        /\ fired[1].msg.cmd = "AUTH_OK" => authenticated = JsTrue
        /\ fired[1].msg.cmd = "LOGOUT_OK" => GetSession = NoSession

\* C19 witness: AUTH_OK with status ERR authenticated a session that was not
C19_Witness ==
    /\ fired # <<>> /\ fired[1].msg.cmd = "AUTH_OK" /\ fired[1].msg.status = "ERR"
    /\ before.authenticated = JsFalse /\ authenticated = JsTrue
    /\ Calls_Of("onError") = 1

\* C20: a message that is no heartbeat fires onResponse once, last, with the
\* message the other hooks of the step got
C20_ResponseOnce ==
    (fired # <<>> /\ fired[1].msg.cmd # "HB") =>
        /\ Calls_Of("onResponse") = 1
        /\ fired[Len(fired)].hook = "onResponse"
        /\ \A i \in 1..Len(fired) : fired[i].msg = fired[1].msg /\ fired[i].n = 1

\* C20 witness: a message with no cmd and status ERR fired onError and then
\* onResponse
C20_Witness ==
    /\ Len(fired) = 2 /\ fired[1].msg.cmd = JsUndefined /\ fired[1].msg.status = "ERR"
    /\ fired[1].hook = "onError" /\ fired[2].hook = "onResponse"

\* the cmd values that have a case in the switch of handleMessage
StateCmds == {"SESSION_INIT", "AUTH_OK", "SESSION_RESUMED", "LOGOUT_OK"}

\* C21: a message whose cmd is none of SESSION_INIT, AUTH_OK, SESSION_RESUMED
\* and LOGOUT_OK leaves token, authenticated, email and username as they
\* were, whatever session fields and status the message carries
C21_OtherCmdKeepsSession ==
    (fired # <<>> /\ fired[1].msg.cmd \notin StateCmds) => GetSession = before

\* C21 witness: a PONG, and a message with no cmd, each carrying a token, the
\* flag, an email and a username, were classified in a session that differs
\* from them in every field
C21_Witness ==
    /\ fired # <<>> /\ fired[1].msg.cmd \in {"PONG", JsUndefined}
    /\ fired[1].hook = "onResponse"
    /\ fired[1].msg.session_token = "T1" /\ fired[1].msg.authenticated = JsTrue
    /\ fired[1].msg.email = "a@b.com" /\ fired[1].msg.username = "a"
    /\ before = NoSession /\ GetSession = NoSession

\* the read loops that can still take a chunk: suspended at read(), line 367,
\* on a stream that is open on an open connection
ActiveLoops ==
    {c \in Calls : /\ loop[c] = "reading"
                   /\ stream[lrd[c]] = "open" /\ conn[starget[lrd[c]]] = "open"}

\* C22: at every moment at most one read loop of the transport is active,
\* whatever the sequence of connect, disconnect and remote close
C22_OneReadLoop == Cardinality(ActiveLoops) <= 1

\* C23: once the teardown has run after a connection was established (the
\* transport is disconnected), no step dispatches an inbound message, also
\* not the step in which a read that was pending at the teardown completes
\* with data
C23_NoDispatchAfterTeardown ==
    [][(Established /\ ~connected) => fired' = <<>>]_vars

\* C24: the closed handler of an earlier connection, running while the
\* transport is connected over a later one, leaves the transport connected
\* with its connection object, writer and reader and fires no onDisconnect
C24_StaleCloseHarmless ==
    [][\A c \in Calls :
          (/\ ClosedHandler(c)
           /\ connected /\ transport # Null /\ transport > closedOn[c]
           /\ cpc[transport] = "done" /\ writer = transport /\ reader = transport)
              => /\ UNCHANGED fields
                 /\ tfired' = <<>>]_vars

\* C25: a logout whose send fails throws to its caller and leaves token,
\* authenticated, email and username as they were: called on a transport
\* that is not connected it throws NotConnected in the same step, and when
\* the write fails it throws the error of the write
C25_LogoutFailureKeepsSession ==
    [][/\ (request'.cmd = "LOGOUT" /\ (~connected \/ writer = Null)) =>
              /\ thrown' = "NotConnected" /\ returned' = "none"
              /\ UNCHANGED session
       /\ (WriteFailed /\ sendOp = "LOGOUT") =>
              /\ thrown' = "WriteError" /\ returned' = "none"
              /\ UNCHANGED session]_vars

\* C25 witness: logout was called after a disconnect, threw NotConnected,
\* and the session is still the authenticated one
C25_Witness ==
    /\ request.cmd = "LOGOUT" /\ request.token = "T1"
    /\ thrown = "NotConnected" /\ ~connected /\ Established
    /\ GetSession = [token |-> "T1", authenticated |-> JsTrue,
                     email |-> "a@b.com", username |-> "a"]

\* C26: no step of the transport lifecycle (connect, disconnect, remote
\* close, the closed handler and its teardown) changes token, authenticated,
\* email or username, and getSession reports after the step what it reported
\* before it
C26_LifecycleKeepsSession ==
    [][Lifecycle => (UNCHANGED session /\ GetSession' = GetSession)]_vars

\* C26 witness: the session was authenticated over the first connection, the
\* first connection was torn down by its closed handler, and the second
\* connect() has returned with the session still authenticated
C26_Witness ==
    /\ returned = "connect" /\ cpc[2] = "done" /\ connected
    /\ handler[1] = "fired" /\ conn[1] = "closed"
    /\ GetSession = [token |-> "T1", authenticated |-> JsTrue,
                     email |-> "a@b.com", username |-> "a"]

\* the place of a hook in handleMessage: the hooks of the switch, then
\* onError, then onResponse
HookRank(hook) ==
    CASE hook \in {"onSessionInit", "onAuthSuccess"} -> 1
      [] hook = "onError" -> 2
      [] hook = "onResponse" -> 3
      [] OTHER -> 0

\* C27: for a message that is no heartbeat, at most one of onSessionInit and
\* onAuthSuccess fires; the hooks fire in the order state hook, onError,
\* onResponse, each at most once; and every one of them, the first included,
\* is called with the session already as handleMessage leaves it
C27_HookOrder ==
    (fired # <<>> /\ fired[1].msg.cmd # "HB") =>
        /\ Calls_Of("onSessionInit") + Calls_Of("onAuthSuccess") <= 1
        /\ \A i \in 1..Len(fired) : HookRank(fired[i].hook) > 0
        /\ \A i, j \in 1..Len(fired) :
               i < j => HookRank(fired[i].hook) < HookRank(fired[j].hook)
        /\ \A i \in 1..Len(fired) : fired[i].seen = GetSession

\* C27 witness: AUTH_OK with status ERR in a new session fired onAuthSuccess,
\* onError and onResponse, the first of them with the session authenticated
C27_Witness ==
    /\ Len(fired) = 3 /\ fired[1].msg.cmd = "AUTH_OK"
    /\ fired[1].hook = "onAuthSuccess" /\ fired[2].hook = "onError"
    /\ fired[3].hook = "onResponse"
    /\ before = NoSession /\ fired[1].seen # before
    /\ fired[1].seen.authenticated = JsTrue /\ GetSession = fired[1].seen
====
